---- MODULE Spec2Model ----
(***************************************************************************)
(* Model of src/src/authorization.rs of auth0_client_rs.                   *)
(*                                                                         *)
(* Two independent flows are modelled:                                     *)
(*   - Auth0Client::authenticate / Auth0Client::access_token, which share  *)
(*     the client's stored access token;                                   *)
(*   - the free function valid_jwt (with fetch_jwks), which shares no      *)
(*     state with the client.                                              *)
(* Every await of the code is a step boundary: the network decides what    *)
(* the step after the await sees.  The alcoholic_jwt calls made by         *)
(* valid_jwt (token_kid, JWKS::find, validate) are synchronous and are     *)
(* operators applied inside the step that follows the last await.          *)
(***************************************************************************)
EXTENDS Naturals, Sequences, FiniteSets

VARIABLES
    config,         \* Auth0Client: client_id, client_secret, audience,
                    \* grant_type, domain
    access_token,   \* Auth0Client.access_token: NoToken (None) or a string
    apc,            \* position of the authenticate() call
    preTok,         \* history: access_token at the start of the current call
    areq,           \* request posted by the current call: url and body
    areqs,          \* token-endpoint requests issued by the current call
    aresp,          \* response of the token endpoint seen by the current call
    ares,           \* result of the current authenticate() call
    everAuthOk,     \* history: some authenticate() has returned Ok(())
    lastOkTok,      \* history: access_token of the latest successful response
    vpc,            \* position of the valid_jwt call
    vtoken,         \* valid_jwt argument: token
    vpolicy,        \* valid_jwt argument: validations
    vrequested,     \* the call has issued its key-discovery request
    vreqs,          \* key-discovery requests issued by the current call
    vstatus,        \* HTTP status of the key-discovery response
    vjwks,          \* key set parsed by fetch_jwks for the current call
    vres,           \* result of the current valid_jwt call
    vprev           \* history: an earlier valid_jwt call, as its caller saw it

authVars == <<config, access_token, apc, preTok, areq, areqs, aresp, ares,
              everAuthOk, lastOkTok>>
verifyVars == <<vpc, vtoken, vpolicy, vrequested, vreqs, vstatus, vjwks, vres,
                vprev>>
vars == <<config, access_token, apc, preTok, areq, areqs, aresp, ares,
          everAuthOk, lastOkTok,
          vpc, vtoken, vpolicy, vrequested, vreqs, vstatus, vjwks, vres, vprev>>

(***************************************************************************)
(* Bounds and input domains                                                *)
(***************************************************************************)
\* Largest number of keys in a key set served by the discovery endpoint.
MaxKeys == 2

\* Largest number of '/' a configured domain ends with.
MaxTrailingSlashes == 2

\* Option::None of the stored access token.
NoToken == "<none>"
\* access_token strings a token endpoint may answer with.
AccessTokens == {"T1", "T2"}
\* HTTP statuses of the token endpoint.
Statuses == {200, 401, 500}
\* HTTP statuses of the key-discovery endpoint.
JwksStatuses == {200, 404}

\* Key ids; NoKid is a JWK whose kid member is absent (Option::None).
Kids == {"k1", "k2"}
NoKid == "<nokid>"
\* Key material: an RSA public key, or n/e members that do not decode.
Materials == {"m1", "m2"}
BadMaterial == "m0"
\* The Validation variants modelled (Issuer and Audience are analogous to
\* SubjectPresent: a comparison on one optional claim).  The Vec<Validation>
\* of a call is modelled as the set of its elements: order and repetition
\* change only the list of messages inside InvalidClaims.
Validations == {"SubjectPresent", "NotExpired"}

(***************************************************************************)
(* Authenticate: the token endpoint's answers                              *)
(***************************************************************************)
\* A response body: whether the text is a complete JSON document, the string
\* under "access_token" ("" when there is none) and the "token_type" member.
Bodies ==
    [complete : BOOLEAN,
     tok : AccessTokens \cup {""},
     ttype : {"absent", "Bearer", "Other"}]

NoResp == [status |-> 0, body |-> [complete |-> FALSE, tok |-> "", ttype |-> "absent"]]

\* Faulty variant of ParsesAsAccessTokenResponse: the response struct also
\* has a token_type: TokenType member.
ParsesWithBearer(body) ==
    body.complete /\ body.tok # "" /\ body.ttype = "Bearer"

\* serde_json::from_str::<AccessTokenResponse>: the only field is
\* access_token: String, so token_type is ignored.
ParsesAsAccessTokenResponse(body) ==
    body.complete /\ body.tok # ""

\* Faulty variant of AuthFinish: the token is copied out of the body as it
\* streams in, before the document is known to be complete.
AuthFinishStreaming(cur, readOk, body) ==
    IF ~readOk THEN [res |-> "Reqwest", tok |-> cur]
    ELSE IF body.tok # ""
         THEN [res |-> IF body.complete THEN "Ok" ELSE "SerdeJson", tok |-> body.tok]
         ELSE [res |-> "SerdeJson", tok |-> cur]

\* Faulty variant of AuthFinish: the token is stored only when none is stored yet.
AuthFinishKeepFirst(cur, readOk, body) ==
    IF ~readOk THEN [res |-> "Reqwest", tok |-> cur]
    ELSE IF ~ParsesAsAccessTokenResponse(body) THEN [res |-> "SerdeJson", tok |-> cur]
    ELSE [res |-> "Ok", tok |-> IF cur = NoToken THEN body.tok ELSE cur]

\* Faulty variant of AuthFinish: a failed call clears the stored token.
AuthFinishClearOnError(cur, readOk, body) ==
    IF ~readOk THEN [res |-> "Reqwest", tok |-> NoToken]
    ELSE IF ~ParsesAsAccessTokenResponse(body) THEN [res |-> "SerdeJson", tok |-> NoToken]
    ELSE [res |-> "Ok", tok |-> body.tok]

\* authenticate() from response.text().await? to its return: the result of
\* the call and the value of self.access_token after it.  `readOk` is whether
\* the body could be read; the status is not consulted.
AuthFinish(cur, readOk, body) ==
    IF ~readOk THEN [res |-> "Reqwest", tok |-> cur]
    ELSE IF ~ParsesAsAccessTokenResponse(body) THEN [res |-> "SerdeJson", tok |-> cur]
    ELSE [res |-> "Ok", tok |-> body.tok]

(***************************************************************************)
(* Authenticate: the client's configuration and the request                *)
(***************************************************************************)
\* Strings whose characters matter are sequences of one-character strings.
Slashes(n) == [i \in 1..n |-> "/"]

\* Domains a client may be constructed with: with and without a scheme,
\* ending with 0..MaxTrailingSlashes separators.
DefaultDomain == <<"h", ":", "/", "/", "d">>
Domains ==
    {base \o Slashes(n) :
        base \in {DefaultDomain, <<"d">>}, n \in 0..MaxTrailingSlashes}

\* Auth0Client::new(client_id, client_secret, domain, audience).
NewClient(domain) ==
    [client_id |-> "client_id",
     client_secret |-> "client_secret",
     audience |-> "audience",
     grant_type |-> "client_credentials",
     domain |-> domain]

\* s[i..] starts with pat.
StartsAt(s, i, pat) ==
    /\ i + Len(pat) - 1 <= Len(s)
    /\ \A k \in 1..Len(pat) : s[i + k - 1] = pat[k]

\* str::replace(from, to) applied to s[i..]: the non-overlapping matches of
\* `from`, found left to right, are replaced by `to`.
RECURSIVE ReplaceFrom(_, _, _, _)
ReplaceFrom(s, i, from, to) ==
    IF i > Len(s) THEN <<>>
    ELSE IF StartsAt(s, i, from)
         THEN to \o ReplaceFrom(s, i + Len(from), from, to)
         ELSE <<s[i]>> \o ReplaceFrom(s, i + 1, from, to)

Replace(s, from, to) == ReplaceFrom(s, 1, from, to)

OauthTokenPath == <<"/", "o", "a", "u", "t", "h", "/", "t", "o", "k", "e", "n">>

\* format!("{}/oauth/token", self.domain).replace("//", "/")
AuthUrl(domain) == Replace(domain \o OauthTokenPath, <<"/", "/">>, <<"/">>)

\* The JSON body of the token request.
AuthBody(cfg) ==
    [grant_type |-> cfg.grant_type,
     client_id |-> cfg.client_id,
     client_secret |-> cfg.client_secret,
     audience |-> cfg.audience]

NoReq == [url |-> <<>>, body |-> AuthBody(NewClient(<<>>))]

\* fn access_token(&self) -> Option<String>: a clone of the field.
AccessTokenOf(client_token) == client_token

\* Faulty variant of AuthCall: the normalised domain is written back into
\* the configuration.
AuthCallStoresDomain ==
    /\ apc = "idle"
    /\ apc' = "sending"
    /\ preTok' = access_token
    /\ config' = [config EXCEPT
                    !.domain = Replace(config.domain, <<"/", "/">>, <<"/">>)]
    /\ areq' = [url |-> AuthUrl(config.domain), body |-> AuthBody(config)]
    /\ areqs' = 1
    /\ aresp' = NoResp
    /\ ares' = "none"
    /\ UNCHANGED <<access_token, everAuthOk, lastOkTok>>
    /\ UNCHANGED verifyVars

\* Faulty variant of AuthCall: the stored token is dropped before the request.
AuthCallClearsFirst ==
    /\ apc = "idle"
    /\ apc' = "sending"
    /\ preTok' = access_token
    /\ access_token' = NoToken
    /\ areq' = [url |-> AuthUrl(config.domain), body |-> AuthBody(config)]
    /\ areqs' = 1
    /\ aresp' = NoResp
    /\ ares' = "none"
    /\ UNCHANGED <<config, everAuthOk, lastOkTok>>
    /\ UNCHANGED verifyVars

\* A caller starts authenticate(): the request is built and sent.
AuthCall ==
    /\ apc = "idle"
    /\ apc' = "sending"
    /\ preTok' = access_token
    /\ areq' = [url |-> AuthUrl(config.domain), body |-> AuthBody(config)]
    /\ areqs' = 1
    /\ aresp' = NoResp
    /\ ares' = "none"
    /\ UNCHANGED <<config, access_token, everAuthOk, lastOkTok>>
    /\ UNCHANGED verifyVars

\* self.http_client.post(&url).json(&body).send().await? : either the request
\* fails, or a response with some status arrives.
AuthSend ==
    /\ apc = "sending"
    /\ \/ /\ apc' = "done"
          /\ ares' = "Reqwest"
          /\ UNCHANGED aresp
       \/ \E st \in Statuses :
            /\ apc' = "reading"
            /\ aresp' = [aresp EXCEPT !.status = st]
            /\ UNCHANGED ares
    /\ UNCHANGED <<config, access_token, preTok, areq, areqs, everAuthOk, lastOkTok>>
    /\ UNCHANGED verifyVars

\* response.text().await?, serde_json::from_str, the store and the return.
AuthRead ==
    /\ apc = "reading"
    /\ \E readOk \in BOOLEAN, body \in Bodies :
         LET r == AuthFinish(access_token, readOk, body) IN
           /\ (~readOk => body = NoResp.body)
           /\ aresp' = [aresp EXCEPT !.body = body]
           /\ ares' = r.res
           /\ access_token' = r.tok
           /\ everAuthOk' = (everAuthOk \/ r.res = "Ok")
           /\ lastOkTok' = IF r.res = "Ok" THEN body.tok ELSE lastOkTok
    /\ apc' = "done"
    /\ UNCHANGED <<config, preTok, areq, areqs>>
    /\ UNCHANGED verifyVars

\* The caller has the result; the client is free for the next call.
AuthReturn ==
    /\ apc = "done"
    /\ apc' = "idle"
    /\ UNCHANGED <<config, access_token, preTok, areq, areqs, aresp, ares,
                   everAuthOk, lastOkTok>>
    /\ UNCHANGED verifyVars

\* The future of authenticate() is dropped while it is suspended at one of
\* its two awaits: nothing after the await runs.
AuthCancel ==
    /\ apc \in {"sending", "reading"}
    /\ apc' = "idle"
    /\ ares' = "cancelled"
    /\ UNCHANGED <<config, access_token, preTok, areq, areqs, aresp,
                   everAuthOk, lastOkTok>>
    /\ UNCHANGED verifyVars

\* A client constructed with `domain`, before any call.
AuthInitWith(domain) ==
    /\ config = NewClient(domain)
    /\ access_token = NoToken
    /\ apc = "idle"
    /\ preTok = NoToken
    /\ areq = NoReq
    /\ areqs = 0
    /\ aresp = NoResp
    /\ ares = "none"
    /\ everAuthOk = FALSE
    /\ lastOkTok = NoToken

AuthInit == AuthInitWith(DefaultDomain)

NextAuth == AuthCall \/ AuthSend \/ AuthRead \/ AuthReturn \/ AuthCancel

(***************************************************************************)
(* valid_jwt: tokens, key sets and the alcoholic_jwt calls                 *)
(***************************************************************************)
\* A claims payload: whether the segment decodes at all, and the sub and exp
\* claims (exp relative to the clock reading of the call).
Payloads ==
    [ok : {TRUE}, sub : {"absent", "present"}, exp : {"absent", "past", "future"}]
    \cup {[ok |-> FALSE, sub |-> "absent", exp |-> "absent"]}

NoClaims == [ok |-> FALSE, sub |-> "absent", exp |-> "absent"]

\* A token as its three segments are seen by alcoholic_jwt:
\*   hdr: "bad" (the header segment does not decode), "nokid" (it decodes
\*        and has no kid member) or the kid it carries;
\*   sig: "badenc" (not base64) or the key material the signature verifies
\*        against;
\*   payload: the claims.
Tokens ==
    [hdr : {"bad", "nokid"} \cup Kids,
     sig : {"badenc"} \cup Materials,
     payload : Payloads]

\* A JWK of the served key set.
Keys == [kid : Kids \cup {NoKid}, mat : Materials \cup {BadMaterial}]

\* The key sets the discovery endpoint may serve: JWKS.keys is a Vec<JWK>.
KeySets == UNION {[1..n -> Keys] : n \in 0..MaxKeys}

NoJwt == [hdr |-> "bad", sig |-> "badenc", payload |-> NoClaims]

Result(kind, err, cause, claims) ==
    [kind |-> kind, err |-> err, cause |-> cause, claims |-> claims]

NoResult == Result("none", "", "", NoClaims)

\* alcoholic_jwt::token_kid: Err(_), Ok(None) or Ok(Some(kid)).
TokenKid(token) ==
    IF token.hdr = "bad" THEN [ok |-> FALSE, kid |-> NoKid]
    ELSE IF token.hdr = "nokid" THEN [ok |-> TRUE, kid |-> NoKid]
    ELSE [ok |-> TRUE, kid |-> token.hdr]

\* JWKS::find(&kid): the index of the first key whose kid equals `kid`, 0 for
\* None.  A key without a kid never matches.
Find(jwks, kid) ==
    IF \E i \in 1..Len(jwks) : jwks[i].kid = kid
    THEN CHOOSE i \in 1..Len(jwks) :
            /\ jwks[i].kid = kid
            /\ \A j \in 1..(i - 1) : jwks[j].kid # kid
    ELSE 0

\* alcoholic_jwt validate_claims: the requested checks that fail.
ClaimErrors(claims, validations) ==
    {v \in validations :
        \/ v = "SubjectPresent" /\ claims.sub = "absent"
        \/ v = "NotExpired" /\ claims.exp # "future"}

\* validate(token, jwk, validations)?: the public key is built from the JWK,
\* the signature is decoded and verified, the payload is decoded, the
\* requested checks are run, and the decoded payload is returned.  An error
\* is converted into Error::InvalidJwt(cause).
Validate(token, jwk, validations) ==
    IF jwk.mat = BadMaterial
    THEN Result("Err", "InvalidJwt", "InvalidJWK", NoClaims)
    ELSE IF token.sig = "badenc"
    THEN Result("Err", "InvalidJwt", "InvalidBase64", NoClaims)
    ELSE IF token.sig # jwk.mat
    THEN Result("Err", "InvalidJwt", "InvalidSignature", NoClaims)
    ELSE IF ~token.payload.ok
    THEN Result("Err", "InvalidJwt", "JSON", NoClaims)
    ELSE IF ClaimErrors(token.payload, validations) # {}
    THEN Result("Err", "InvalidJwt", "InvalidClaims", NoClaims)
    ELSE Result("Ok", "", "", token.payload)

\* Faulty variant of ResolveAndValidate: when no key carries the kid, the
\* first key of the set is used.
ResolveAndValidateFallback(token, jwks, validations) ==
    LET k == TokenKid(token) IN
    IF ~k.ok THEN Result("Err", "JwtMissingKid", "", NoClaims)
    ELSE IF k.kid = NoKid THEN Result("Panic", "failed to decode kid", "", NoClaims)
    ELSE LET i == Find(jwks, k.kid) IN
         IF i = 0
         THEN IF Len(jwks) = 0 THEN Result("Err", "JwtMissingKid", "", NoClaims)
              ELSE Validate(token, jwks[1], validations)
         ELSE Validate(token, jwks[i], validations)

\* Faulty variant of ResolveAndValidate: every failure of validate is
\* reported as JwtMissingKid.
ResolveAndValidateOneError(token, jwks, validations) ==
    LET k == TokenKid(token) IN
    IF ~k.ok THEN Result("Err", "JwtMissingKid", "", NoClaims)
    ELSE IF k.kid = NoKid THEN Result("Panic", "failed to decode kid", "", NoClaims)
    ELSE LET i == Find(jwks, k.kid) IN
         IF i = 0 THEN Result("Err", "JwtMissingKid", "", NoClaims)
         ELSE LET r == Validate(token, jwks[i], validations) IN
              IF r.kind = "Ok" THEN r
              ELSE Result("Err", "JwtMissingKid", "", NoClaims)

\* Faulty variant of ResolveAndValidate: NotExpired is always added to the
\* caller's validations.
ResolveAndValidateForcedExpiry(token, jwks, validations) ==
    LET k == TokenKid(token) IN
    IF ~k.ok THEN Result("Err", "JwtMissingKid", "", NoClaims)
    ELSE IF k.kid = NoKid THEN Result("Panic", "failed to decode kid", "", NoClaims)
    ELSE LET i == Find(jwks, k.kid) IN
         IF i = 0 THEN Result("Err", "JwtMissingKid", "", NoClaims)
         ELSE Validate(token, jwks[i], validations \cup {"NotExpired"})

\* Faulty variant of ResolveAndValidate: the caller's validations are dropped.
ResolveAndValidateNoPolicy(token, jwks, validations) ==
    LET k == TokenKid(token) IN
    IF ~k.ok THEN Result("Err", "JwtMissingKid", "", NoClaims)
    ELSE IF k.kid = NoKid THEN Result("Panic", "failed to decode kid", "", NoClaims)
    ELSE LET i == Find(jwks, k.kid) IN
         IF i = 0 THEN Result("Err", "JwtMissingKid", "", NoClaims)
         ELSE Validate(token, jwks[i], {})

\* valid_jwt after fetch_jwks has returned Ok(jwks): token_kid, the expect,
\* find and validate.
ResolveAndValidate(token, jwks, validations) ==
    LET k == TokenKid(token) IN
    IF ~k.ok THEN Result("Err", "JwtMissingKid", "", NoClaims)
    ELSE IF k.kid = NoKid THEN Result("Panic", "failed to decode kid", "", NoClaims)
    ELSE LET i == Find(jwks, k.kid) IN
         IF i = 0 THEN Result("Err", "JwtMissingKid", "", NoClaims)
         ELSE Validate(token, jwks[i], validations)

(***************************************************************************)
(* valid_jwt: the call                                                     *)
(***************************************************************************)
NoJwks == [ok |-> FALSE, keys |-> <<>>]

\* No earlier call is remembered.
NoPrev == [set |-> FALSE, token |-> NoJwt, policy |-> {}, jwks |-> NoJwks,
           res |-> NoResult]

\* A caller starts valid_jwt(token, authority, validations), with the token
\* drawn from `tokens` and the validations from `policies`: the first thing
\* the body does is fetch_jwks, whose reqwest::get issues the request.
ValidJwtCallOf(tokens, policies) ==
    /\ vpc = "idle"
    /\ \E token \in tokens, validations \in policies :
         /\ vtoken' = token
         /\ vpolicy' = validations
    /\ vpc' = "fetching"
    /\ vrequested' = TRUE
    /\ vreqs' = 1
    /\ UNCHANGED <<vstatus, vjwks, vres, vprev>>
    /\ UNCHANGED authVars

ValidJwtCall == ValidJwtCallOf(Tokens, SUBSET Validations)

\* Faulty variant of FetchSend: a failed request is sent once more.
FetchSendRetry ==
    /\ vpc = "fetching"
    /\ \/ /\ vreqs < 2
          /\ vreqs' = vreqs + 1
          /\ UNCHANGED <<vpc, vres, vstatus>>
       \/ /\ vreqs >= 2
          /\ vpc' = "done"
          /\ vres' = Result("Err", "Reqwest", "request", NoClaims)
          /\ UNCHANGED <<vstatus, vreqs>>
       \/ \E st \in JwksStatuses :
            /\ vpc' = "reading"
            /\ vstatus' = st
            /\ UNCHANGED <<vres, vreqs>>
    /\ UNCHANGED <<vtoken, vpolicy, vrequested, vjwks, vprev>>
    /\ UNCHANGED authVars

\* reqwest::get(uri).await? : the request fails, or a response with some
\* status arrives.  The status is not consulted.
FetchSend ==
    /\ vpc = "fetching"
    /\ \/ /\ vpc' = "done"
          /\ vres' = Result("Err", "Reqwest", "request", NoClaims)
          /\ UNCHANGED vstatus
       \/ \E st \in JwksStatuses :
            /\ vpc' = "reading"
            /\ vstatus' = st
            /\ UNCHANGED vres
    /\ UNCHANGED <<vtoken, vpolicy, vrequested, vreqs, vjwks, vprev>>
    /\ UNCHANGED authVars

\* res.json::<JWKS>().await? : the body cannot be read or is no key set, or
\* it is one of `keysets`; in that case the rest of valid_jwt runs without
\* suspending.
FetchJsonOf(keysets) ==
    /\ vpc = "reading"
    /\ \/ /\ vres' = Result("Err", "Reqwest", "decode", NoClaims)
          /\ UNCHANGED vjwks
       \/ \E keys \in keysets :
            /\ vjwks' = [ok |-> TRUE, keys |-> keys]
            /\ vres' = ResolveAndValidate(vtoken, keys, vpolicy)
    /\ vpc' = "done"
    /\ UNCHANGED <<vtoken, vpolicy, vrequested, vreqs, vstatus, vprev>>
    /\ UNCHANGED authVars

FetchJson == FetchJsonOf(KeySets)

\* The caller has the result (or the task has unwound from the panic).
ValidJwtReturn ==
    /\ vpc = "done"
    /\ vpc' = "idle"
    /\ vtoken' = NoJwt
    /\ vpolicy' = {}
    /\ vrequested' = FALSE
    /\ vreqs' = 0
    /\ vstatus' = 0
    /\ vjwks' = NoJwks
    /\ vres' = NoResult
    /\ UNCHANGED vprev
    /\ UNCHANGED authVars

\* As ValidJwtReturn; the call (arguments, fetched key set, result) is kept
\* for comparison with later calls.
ValidJwtReturnRemember ==
    /\ vpc = "done"
    /\ vpc' = "idle"
    /\ vtoken' = NoJwt
    /\ vpolicy' = {}
    /\ vrequested' = FALSE
    /\ vreqs' = 0
    /\ vstatus' = 0
    /\ vjwks' = NoJwks
    /\ vres' = NoResult
    /\ vprev' = [set |-> TRUE, token |-> vtoken, policy |-> vpolicy,
                 jwks |-> vjwks, res |-> vres]
    /\ UNCHANGED authVars

(***************************************************************************)
(* valid_jwt beside the client: a sample of the inputs                     *)
(***************************************************************************)
\* One key, and tokens that name it and verify, name it and do not verify,
\* and name another key.
SampleKeys == {[kid |-> "k1", mat |-> "m1"]}
SampleKeySets == UNION {[1..n -> SampleKeys] : n \in 0..MaxKeys}
SampleTokens ==
    [hdr : Kids, sig : {"m1"},
     payload : {[ok |-> TRUE, sub |-> "present", exp |-> "future"]}]
    \cup [hdr : {"k1"}, sig : {"m2"},
          payload : {[ok |-> TRUE, sub |-> "present", exp |-> "future"]}]
SamplePolicies == {{"SubjectPresent"}}

ValidJwtCallSample == ValidJwtCallOf(SampleTokens, SamplePolicies)

\* Faulty variant of FetchJsonSample: the key set of the remembered call is
\* used instead of the one just fetched.
FetchJsonSampleCached ==
    /\ vpc = "reading"
    /\ \/ /\ vres' = Result("Err", "Reqwest", "decode", NoClaims)
          /\ UNCHANGED vjwks
       \/ \E keys \in SampleKeySets :
            /\ vjwks' = [ok |-> TRUE, keys |-> keys]
            /\ vres' = ResolveAndValidate(vtoken,
                           IF vprev.set /\ vprev.jwks.ok
                           THEN vprev.jwks.keys ELSE keys,
                           vpolicy)
    /\ vpc' = "done"
    /\ UNCHANGED <<vtoken, vpolicy, vrequested, vreqs, vstatus, vprev>>
    /\ UNCHANGED authVars

FetchJsonSample == FetchJsonOf(SampleKeySets)

NextVerifySample ==
    \/ ValidJwtCallSample
    \/ FetchSend
    \/ FetchJsonSample
    \/ ValidJwtReturn
    \/ ValidJwtReturnRemember

VerifyInit ==
    /\ vpc = "idle"
    /\ vtoken = NoJwt
    /\ vpolicy = {}
    /\ vrequested = FALSE
    /\ vreqs = 0
    /\ vstatus = 0
    /\ vjwks = NoJwks
    /\ vres = NoResult
    /\ vprev = NoPrev

NextVerify == ValidJwtCall \/ FetchSend \/ FetchJson \/ ValidJwtReturn

(***************************************************************************)
(* Specifications                                                          *)
(***************************************************************************)
Init == AuthInit /\ VerifyInit

Next == NextAuth \/ NextVerify

\* The whole program: a client and a verifier running side by side.
Spec == Init /\ [][Next]_vars

\* The client alone (valid_jwt reads and writes none of its state).
SpecAuth == Init /\ [][NextAuth]_vars

\* valid_jwt alone (it takes no client).
SpecVerify == Init /\ [][NextVerify]_vars

\* A client and a verifier side by side, every interleaving of their steps,
\* with the verifier's inputs drawn from the sample.
NextInterleaved == NextAuth \/ NextVerifySample

SpecInterleaved == Init /\ [][NextInterleaved]_vars

\* The client alone, constructed with any of the domains.
InitAnyDomain == (\E d \in Domains : AuthInitWith(d)) /\ VerifyInit

SpecUrl == InitAnyDomain /\ [][NextAuth]_vars

(***************************************************************************)
(* Properties of valid_jwt (checked under SpecVerify)                      *)
(***************************************************************************)
\* Key i is the key the set holds under `kid`: the first one carrying it.
Resolves(keys, kid, i) ==
    /\ i \in 1..Len(keys)
    /\ keys[i].kid = kid
    /\ \A j \in 1..(i - 1) : keys[j].kid # kid

\* The payload passes every requested check: a requested SubjectPresent finds
\* a sub claim, a requested NotExpired finds an exp claim that is not past.
PolicySatisfied(payload, validations) ==
    /\ payload.ok
    /\ ("SubjectPresent" \in validations => payload.sub = "present")
    /\ ("NotExpired" \in validations => payload.exp = "future")

Returned == vpc = "done"

\* C1: a call whose token has a decodable header without a kid, and whose key
\* set was fetched, ends by returning a typed failure (JwtMissingKid, or a
\* malformed-token error) and never by aborting.
C1_NoKidIsTypedFailure ==
    (Returned /\ vjwks.ok /\ vtoken.hdr = "nokid")
        => (vres.kind = "Err" /\ vres.err \in {"JwtMissingKid", "MalformedToken"})

\* C2: when the key set was fetched and none of its keys carries the token's
\* kid (the empty set included), the call fails with JwtMissingKid: not with
\* a transport error, not with any other error, not with success.
C2_UnknownKidIsJwtMissingKid ==
    (/\ Returned
     /\ vjwks.ok
     /\ vtoken.hdr \in Kids
     /\ \A i \in 1..Len(vjwks.keys) : vjwks.keys[i].kid # vtoken.hdr)
        => vres = Result("Err", "JwtMissingKid", "", NoClaims)

\* C2 witness: a properly signed token with satisfied claims is rejected
\* because the only key of the set carries another kid.
C2_Witness ==
    /\ Returned
    /\ vjwks.ok
    /\ Len(vjwks.keys) = 1
    /\ vtoken.hdr \in Kids
    /\ vjwks.keys[1].kid \in Kids \ {vtoken.hdr}
    /\ vjwks.keys[1].mat = vtoken.sig
    /\ PolicySatisfied(vtoken.payload, vpolicy)
    /\ vres.err = "JwtMissingKid"

\* C3: when the token's kid resolves to an RSA key of the fetched set and the
\* well-encoded signature does not verify against that key, the call fails
\* with InvalidJwt(InvalidSignature), whatever the payload and the policy.
C3_WrongSignatureIsInvalidSignature ==
    \A i \in 1..Len(vjwks.keys) :
        (/\ Returned
         /\ vjwks.ok
         /\ Resolves(vjwks.keys, vtoken.hdr, i)
         /\ vjwks.keys[i].mat \in Materials
         /\ vtoken.sig \in Materials
         /\ vtoken.sig # vjwks.keys[i].mat)
            => vres = Result("Err", "InvalidJwt", "InvalidSignature", NoClaims)

\* C3 witness: the signature mismatch is reported although the payload also
\* fails a requested check.
C3_Witness ==
    /\ Returned
    /\ vjwks.ok
    /\ \E i \in 1..Len(vjwks.keys) :
         /\ Resolves(vjwks.keys, vtoken.hdr, i)
         /\ vjwks.keys[i].mat \in Materials
         /\ vtoken.sig \in Materials \ {vjwks.keys[i].mat}
    /\ vtoken.payload.ok
    /\ vtoken.payload.sub = "absent"
    /\ "SubjectPresent" \in vpolicy
    /\ vres.cause = "InvalidSignature"

\* C4: when the token's kid resolves to a key of the fetched set, the token
\* is signed by that key and its payload passes every requested check, the
\* call succeeds and returns the token's own payload.
C4_ValidTokenSucceeds ==
    \A i \in 1..Len(vjwks.keys) :
        (/\ Returned
         /\ vjwks.ok
         /\ Resolves(vjwks.keys, vtoken.hdr, i)
         /\ vtoken.sig = vjwks.keys[i].mat
         /\ PolicySatisfied(vtoken.payload, vpolicy))
            => (vres.kind = "Ok" /\ vres.claims = vtoken.payload)

\* C4 witness: a success under a policy that requests both checks.
C4_Witness ==
    /\ Returned
    /\ vjwks.ok
    /\ vpolicy = Validations
    /\ vres.kind = "Ok"
    /\ vres.claims = [ok |-> TRUE, sub |-> "present", exp |-> "future"]

\* C5: the call succeeds only if the fetched set holds a key under exactly
\* the token's kid, the signature verifies against that key (the first one
\* carrying the kid, whatever other keys the set holds), and every requested
\* check passes.
C5_SuccessOnlyIf ==
    (Returned /\ vres.kind = "Ok")
        => /\ vjwks.ok
           /\ vtoken.hdr \in Kids
           /\ \E i \in 1..Len(vjwks.keys) :
                /\ Resolves(vjwks.keys, vtoken.hdr, i)
                /\ vjwks.keys[i].mat = vtoken.sig
           /\ PolicySatisfied(vtoken.payload, vpolicy)

\* C5 witness: a success with a second, different RSA key in the set.
C5_Witness ==
    /\ Returned
    /\ vres.kind = "Ok"
    /\ Len(vjwks.keys) = 2
    /\ vjwks.keys[1].mat \in Materials
    /\ vjwks.keys[2].mat \in Materials
    /\ vjwks.keys[1].mat # vjwks.keys[2].mat
    /\ vjwks.keys[1].kid # vjwks.keys[2].kid

\* C10: a token whose header does not decode is rejected as such without a
\* key-discovery request, whatever the discovery endpoint would answer.
C10_HeaderDecodedBeforeFetch ==
    (Returned /\ vtoken.hdr = "bad")
        => (~vrequested /\ vres = Result("Err", "JwtMissingKid", "", NoClaims))

(***************************************************************************)
(* Properties of the client (checked under SpecAuth)                       *)
(***************************************************************************)
\* C6: access_token() returns a value only if some authenticate() on the
\* client has returned Ok(()); until then it returns None.
C6_TokenOnlyAfterSuccess ==
    AccessTokenOf(access_token) # NoToken => everAuthOk

\* C6 witness: a call has failed on a body that holds a token but is cut
\* short, no call has succeeded, and access_token() is None.
C6_Witness ==
    /\ apc = "done"
    /\ ares = "SerdeJson"
    /\ aresp.body.tok \in AccessTokens
    /\ ~everAuthOk
    /\ AccessTokenOf(access_token) = NoToken

\* C7: access_token() is the access_token of the response to the most recent
\* successful authenticate() (None while there is none).
C7_TokenIsLatestSuccess ==
    AccessTokenOf(access_token) = lastOkTok

\* C7 witness: a success has replaced a different token stored before it.
C7_Witness ==
    /\ apc = "done"
    /\ ares = "Ok"
    /\ preTok \in AccessTokens
    /\ aresp.body.tok \in AccessTokens \ {preTok}
    /\ AccessTokenOf(access_token) = aresp.body.tok

\* C8: when authenticate() has returned an error, the stored token is what it
\* was when the call started.
C8_ErrorLeavesToken ==
    (apc = "done" /\ ares # "Ok") => access_token = preTok

\* C8 witness: a call has failed after an earlier success, and the earlier
\* token is still readable.
C8_Witness ==
    /\ apc = "done"
    /\ ares \in {"Reqwest", "SerdeJson"}
    /\ preTok \in AccessTokens
    /\ AccessTokenOf(access_token) = preTok

\* C9: when the token endpoint answers with a non-success status, the call
\* fails with the transport error and stores nothing, whatever the body.
C9_StatusFailureIsTransport ==
    (apc = "done" /\ aresp.status \in Statuses \ {200})
        => (ares = "Reqwest" /\ access_token = preTok)

(***************************************************************************)
(* Error kinds of valid_jwt (checked under SpecVerify)                     *)
(***************************************************************************)
\* C11: once the key set is fetched, a token whose header does not decode is
\* rejected with a malformed-token error, a kind other than the JwtMissingKid
\* of a kid that is not in the key set.
C11_BadHeaderIsMalformedToken ==
    (Returned /\ vjwks.ok /\ vtoken.hdr = "bad")
        => (/\ vres.kind = "Err"
            /\ vres.err = "MalformedToken"
            /\ vres.err # "JwtMissingKid")

\* C12: a key-discovery response with a non-success status makes the call
\* fail with the transport error, whatever its body.  (How a body that is no
\* key set is told apart from a transport failure is decided by the
\* conversion of reqwest::Error in crate::error.)
C12_FetchErrorKinds ==
    (Returned /\ vstatus \in JwksStatuses \ {200})
        => (vres.kind = "Err" /\ vres.err = "Reqwest")

(***************************************************************************)
(* The token-endpoint URL (checked under SpecUrl)                          *)
(***************************************************************************)
SchemeSeparator == <<":", "/", "/">>

\* The string has a scheme: one character followed by "://".
HasScheme(s) == StartsAt(s, 2, SchemeSeparator)

\* What follows the scheme separator (the whole string without a scheme).
AfterScheme(s) == IF HasScheme(s) THEN SubSeq(s, 5, Len(s)) ELSE s

NoDoubleSlash(s) == \A i \in 1..Len(s) : ~StartsAt(s, i, <<"/", "/">>)

\* C17: the URL a call posts to keeps the "://" of the configured domain, and
\* what follows it has no two consecutive '/'.
C17_UrlNormalised ==
    (apc = "sending")
        => (/\ (HasScheme(config.domain) => HasScheme(areq.url))
            /\ NoDoubleSlash(AfterScheme(areq.url)))

(***************************************************************************)
(* The stored token over a call (checked under SpecAuth)                   *)
(***************************************************************************)
\* C14: while a call is suspended (sending the request, reading the body)
\* the stored token is what it was when the call started; the token changes
\* only in the step that ends a call with Ok(()), once the body is read and
\* parsed; a call dropped while suspended leaves the token as it was.
C14_SingleWriteAfterParse ==
    [][/\ (apc' \in {"sending", "reading"} => access_token' = preTok')
       /\ (access_token' # access_token
             => (apc = "reading" /\ apc' = "done" /\ ares' = "Ok"))
       /\ (ares' = "cancelled" => access_token' = preTok')]_vars

\* C14 witness: a call that started with a token stored was dropped while
\* reading the body, and the token is still the one stored before it.
C14_Witness ==
    /\ apc = "idle"
    /\ ares = "cancelled"
    /\ aresp.status \in Statuses
    /\ preTok \in AccessTokens
    /\ AccessTokenOf(access_token) = preTok

\* C19: a stored token is never cleared: once access_token() returns a value
\* it returns one after every further step.
C19_TokenNeverCleared ==
    [][AccessTokenOf(access_token) # NoToken
         => AccessTokenOf(access_token') # NoToken]_vars

\* C19 witness: a token is still stored after a later call got a 500 whose
\* body did not parse.
C19_Witness ==
    /\ apc = "done"
    /\ ares = "SerdeJson"
    /\ aresp.status = 500
    /\ AccessTokenOf(access_token) \in AccessTokens

\* C20: a finished call has succeeded exactly if its response body was read
\* and is a JSON document with a string access_token, whatever token_type it
\* has or lacks; the call then stored that access_token.
C20_AcceptedIffAccessToken ==
    (apc = "done")
        => /\ (ares = "Ok")
                <=> (aresp.body.complete /\ aresp.body.tok \in AccessTokens)
           /\ (ares = "Ok" => AccessTokenOf(access_token) = aresp.body.tok)

\* C20 witness: a response without a Bearer token_type was accepted.
C20_Witness ==
    /\ apc = "done"
    /\ ares = "Ok"
    /\ aresp.body.ttype \in {"absent", "Other"}
    /\ AccessTokenOf(access_token) = aresp.body.tok

\* C13: a valid_jwt call issues one key-discovery request and no more, the
\* key set it uses comes from that request, and an authenticate call issues
\* exactly one token request: nothing is sent again after a failure.
C13_OneRequestPerCall ==
    /\ vreqs <= 1
    /\ (vpc # "idle" => vreqs = 1)
    /\ (vjwks.ok => (vrequested /\ vreqs = 1))
    /\ (apc \in {"sending", "reading", "done"} => areqs = 1)

\* Both calls have failed in transport, each after its single request.
C13_Witness ==
    /\ Returned
    /\ vres.kind = "Err" /\ vres.err = "Reqwest" /\ vres.cause = "request"
    /\ vreqs = 1
    /\ apc = "done" /\ ares = "Reqwest"
    /\ areqs = 1

C18_ConfigurationAndReadsFrame ==
    [][/\ config' = config
       /\ (verifyVars' # verifyVars => access_token' = access_token)]_vars

\* An authenticate call has stored a token and a valid_jwt call has returned,
\* and the configuration is the one the client was built with.
C18_Witness ==
    /\ apc = "done" /\ ares = "Ok"
    /\ AccessTokenOf(access_token) \in AccessTokens
    /\ Returned /\ vres.kind = "Ok"
    /\ config = NewClient(DefaultDomain)

====
